---- MODULE Spec2Model ----
(***************************************************************************)
(* A model of the on-chain registry and allocation client                  *)
(* (contract-client/src/client.rs, struct EthersClient).                   *)
(*                                                                         *)
(* These specifications share this module:                                 *)
(*   Spec       one call of a paginated read (active_gateways or           *)
(*              gateway_clusters) against an L2 chain whose registry       *)
(*              changes while the call runs;                               *)
(*   SpecAlloc  one call of current_allocations;                           *)
(*   SpecEpoch  one call of current_epoch_start against the L2 controller  *)
(*              and the L1 (anchor) chain;                                 *)
(*   SpecReg    one call of active_workers or is_gateway_registered;       *)
(*   SpecStream the stream of network_nodes_stream, tick by tick, and      *)
(*              SpecStreamLive, the same with a running timer and a        *)
(*              polling consumer;                                          *)
(*   SpecClient construction and duplication of the client while the       *)
(*              registry's default strategy changes.                       *)
(*                                                                         *)
(* A Vec whose elements repeat is written run-length encoded: a sequence   *)
(* of runs [x |-> element, n |-> count], n >= 1, adjacent runs holding     *)
(* different elements.  A page of 10000 entries is then a few runs, and    *)
(* GATEWAYS_PAGE_SIZE keeps the value the program gives it.                *)
(***************************************************************************)
EXTENDS Integers, Sequences, FiniteSets, TLC

VARIABLES
    \* ---- L2 chain, as the paginated reads see it
    height,          \* current L2 block number
    listAt,          \* listAt[b + 1]: the enumerated on-chain list as of block b
    \* ---- one call of active_gateways / gateway_clusters
    op,              \* which operation the call is
    worker_id,       \* gateway_clusters' argument
    pc,              \* position of the call
    latest_block,    \* the local latest_block
    page,            \* the loop variable
    active_gateways, \* the local Vec<PeerId>
    clusters,        \* the local HashMap<Address, GatewayCluster>
    result,          \* what the call returned
    requests,        \* page requests sent, in order, with what came back
    height_fetches,  \* number of get_block_number requests sent
    \* ---- one call of current_allocations
    cu,              \* cu[strategy][onchain_id]: computationUnitsPerEpoch on chain
    default_strategy_addr, \* EthersClient.default_strategy_addr
    used_strategy,   \* GatewayRegistry.getUsedStrategy of the calling gateway
    al_pc,
    al_arg,          \* the argument workers: Option<Vec<Worker>>
    al_workers,      \* the local workers
    strategy_addr,   \* the local strategy_addr
    al_result,
    al_calls,        \* contract calls sent, in order
    \* ---- one call of current_epoch_start
    l1_client,       \* endpoint EthersClient.l1_client is connected to
    l2_client,       \* endpoint EthersClient.l2_client is connected to
    nextEpoch,       \* NetworkController.nextEpoch on chain
    epochLength,     \* NetworkController.epochLength on chain
    chainHead,       \* chainHead[endpoint]: last block the endpoint has
    ep_pc,
    next_epoch_start_block,
    epoch_length_blocks,
    ep_result,
    ep_calls,        \* requests sent, in order, with the endpoint they went to
    \* ---- one call of active_workers / is_gateway_registered
    rg_op,           \* which operation the call is
    rg_workers,      \* WorkerRegistration.getActiveWorkers on chain
    rg_worker_ids,   \* WorkerRegistration.getActiveWorkerIds on chain
    rg_gateways,     \* rg_gateways[id bytes]: GatewayRegistry.getGateway on chain
    rg_peer,         \* is_gateway_registered's argument
    rg_pc,
    rg_result,
    rg_calls,        \* contract calls sent, in order
    \* ---- the stream network_nodes_stream returns
    timer_due,       \* interval ticks elapsed and not yet taken by the stream
    timer_fired,     \* interval ticks elapsed so far
    st_pc,           \* position of the stream
    st_tick,         \* number of ticks the stream has started
    st_gateways,     \* the local gateways of the running tick
    st_fetched,      \* what the fetches of the last started tick returned
    st_issued,       \* the fetches the last started tick has made, in order,
                     \* with how each ended
    items,           \* per item the consumer has received, in order: its tick
                     \* and whether it is Ok
    last_item,       \* the item the consumer received last
    \* ---- construction and duplication of the client
    registry_default, \* GatewayRegistry.defaultStrategy on chain, now
    handles,         \* the EthersClient values in existence, in order of
                     \* creation
    default_reads,   \* defaultStrategy requests sent, in order
    decisions        \* comparisons of a resolved strategy with the default,
                     \* in order

pagedVars == <<height, listAt, op, worker_id, pc, latest_block, page,
               active_gateways, clusters, result, requests, height_fetches>>
allocVars == <<cu, default_strategy_addr, used_strategy, al_pc, al_arg, al_workers,
               strategy_addr, al_result, al_calls>>
epochVars == <<l1_client, l2_client, nextEpoch, epochLength, chainHead, ep_pc,
               next_epoch_start_block, epoch_length_blocks, ep_result, ep_calls>>
regVars == <<rg_op, rg_workers, rg_worker_ids, rg_gateways, rg_peer, rg_pc,
             rg_result, rg_calls>>
streamVars == <<timer_due, timer_fired, st_pc, st_tick, st_gateways, st_fetched,
                st_issued, items, last_item>>
clientVars == <<registry_default, handles, default_reads, decisions>>
vars == <<pagedVars, allocVars, epochVars, regVars, streamVars, clientVars>>

(***************************************************************************)
(* Bounds of the model.                                                    *)
(***************************************************************************)
MaxHeight == 3
MaxWorkers == 2
MaxTicks == 3
MaxNodes == 2
MaxHandles == 3
MaxDecisions == 2

(***************************************************************************)
(* Program constants.                                                      *)
(***************************************************************************)
GATEWAYS_PAGE_SIZE == 10000

None == "None"

Ok(v) == [ok |-> TRUE, value |-> v]
Err(e) == [ok |-> FALSE, err |-> e]

\* the value of a result variable while its call has not returned
Pending == Err("pending")

\* Option
Some(v) == [some |-> TRUE, value |-> v]
NoneOpt == [some |-> FALSE]

(***************************************************************************)
(* Vec, run-length encoded.                                                *)
(***************************************************************************)
RECURSIVE vec_len(_)
vec_len(v) == IF v = <<>> THEN 0 ELSE Head(v).n + vec_len(Tail(v))

\* n pushes of x
vec_push_n(v, x, n) ==
    IF n = 0 THEN v
    ELSE IF v # <<>> /\ v[Len(v)].x = x
         THEN [v EXCEPT ![Len(v)].n = @ + n]
         ELSE Append(v, [x |-> x, n |-> n])

RECURSIVE vec_extend(_, _)
vec_extend(v, w) ==
    IF w = <<>> THEN v
    ELSE vec_extend(vec_push_n(v, Head(w).x, Head(w).n), Tail(w))

RECURSIVE vec_take(_, _)
vec_take(v, k) ==
    IF k = 0 \/ v = <<>> THEN <<>>
    ELSE IF Head(v).n <= k
         THEN <<Head(v)>> \o vec_take(Tail(v), k - Head(v).n)
         ELSE <<[x |-> Head(v).x, n |-> k]>>

RECURSIVE vec_skip(_, _)
vec_skip(v, k) ==
    IF v = <<>> \/ k = 0 THEN v
    ELSE IF Head(v).n <= k
         THEN vec_skip(Tail(v), k - Head(v).n)
         ELSE <<[x |-> Head(v).x, n |-> Head(v).n - k]>> \o Tail(v)

(***************************************************************************)
(* PeerId::from_bytes / to_bytes.  The bytes are a multihash               *)
(* <<code, size, digest...>>; decoding succeeds when the size byte is the  *)
(* length of the digest and the code is identity (0) or sha2-256 (18).     *)
(***************************************************************************)
from_bytes(raw) ==
    IF /\ Len(raw) >= 2
       /\ raw[2] = Len(raw) - 2
       /\ raw[1] \in {0, 18}
    THEN Ok([code |-> raw[1], digest |-> SubSeq(raw, 3, Len(raw))])
    ELSE Err("InvalidPeerId")

to_bytes(peer_id) == <<peer_id.code, Len(peer_id.digest)>> \o peer_id.digest

\* gateway ids as the registry stores them: two that decode, one that does not
IdA == <<18, 1, 1>>
IdB == <<0, 1, 2>>
IdBad == <<18, 2, 3>>
RawIds == {IdA, IdB, IdBad}

\* gateway_ids.iter().filter_map(|id| PeerId::from_bytes(id).ok())
RECURSIVE filter_map_from_bytes(_)
filter_map_from_bytes(ids) ==
    IF ids = <<>> THEN <<>>
    ELSE LET r == from_bytes(Head(ids).x)
             rest == filter_map_from_bytes(Tail(ids))
         IN IF r.ok
            THEN vec_extend(<<[x |-> r.value, n |-> Head(ids).n]>>, rest)
            ELSE rest

(***************************************************************************)
(* The L2 chain seen by the paginated reads.  One list is enumerated by    *)
(* the call: the registry's active gateway ids for active_gateways, the    *)
(* viewer's allocation records of worker_id for gateway_clusters.  Every   *)
(* block may append entries to it or remove its oldest entries, and the    *)
(* node answers a call pinned to block b from the list as of b.            *)
(***************************************************************************)
Op1 == "0xOp1"
Op2 == "0xOp2"
IdC == <<18, 1, 4>>

\* contracts::Allocation records of the viewer
AllocRecords ==
    { [gateway_id |-> IdA,   operator |-> Op1, allocated |-> 5],
      [gateway_id |-> IdB,   operator |-> Op1, allocated |-> 7],
      [gateway_id |-> IdBad, operator |-> Op1, allocated |-> 9],
      [gateway_id |-> IdC,   operator |-> Op2, allocated |-> 5] }

Entries(o) == IF o = "active_gateways" THEN RawIds ELSE AllocRecords

RunLens == {4321, GATEWAYS_PAGE_SIZE}

WorkerIds == {1, 2}

StateAt(b) == listAt[b + 1]

\* GatewayRegistry.getActiveGateways(pageNumber, perPage) and
\* AllocationsViewer.getAllocations(workerId, pageNumber, perPage):
\* the entries numbered perPage * pageNumber and up, at most perPage of them
get_page(list, pageNumber, perPage) ==
    vec_take(vec_skip(list, perPage * pageNumber), perPage)

ChainAppend ==
    /\ height < MaxHeight
    /\ \E e \in Entries(op), n \in RunLens :
           listAt' = Append(listAt, vec_push_n(StateAt(height), e, n))
    /\ height' = height + 1
    /\ UNCHANGED <<op, worker_id, pc, latest_block, page, active_gateways,
                   clusters, result, requests, height_fetches>>
    /\ UNCHANGED <<allocVars, epochVars, regVars, streamVars, clientVars>>

ChainRemove ==
    /\ height < MaxHeight
    /\ StateAt(height) # <<>>
    /\ listAt' = Append(listAt, Tail(StateAt(height)))
    /\ height' = height + 1
    /\ UNCHANGED <<op, worker_id, pc, latest_block, page, active_gateways,
                   clusters, result, requests, height_fetches>>
    /\ UNCHANGED <<allocVars, epochVars, regVars, streamVars, clientVars>>

(***************************************************************************)
(* active_gateways and gateway_clusters.                                   *)
(***************************************************************************)
\* a page request left unpinned is answered from the chain's head
block_of_request_unpinned == height

\* .block(latest_block): the block a page request is pinned to
block_of_request == latest_block

\* a loop that also stops on a full page
is_last_page_le(page_size) == page_size <= GATEWAYS_PAGE_SIZE

\* if page_size < GATEWAYS_PAGE_SIZE { break; }
is_last_page(page_size) == page_size < GATEWAYS_PAGE_SIZE

\* for page in 0.. : the index of the page after this one
next_page(p) == p + 1

\* a page request as sent (fn, worker, page, size, block) and as answered
\* (ok, returned); head is the chain's block number when it was answered
Request(fn, ok, returned) ==
    [fn |-> fn, worker |-> worker_id, page |-> page,
     size |-> GATEWAYS_PAGE_SIZE, block |-> block_of_request,
     head |-> height, ok |-> ok, returned |-> returned]

\* the errors a request of a paginated read can fail with
RequestErrors == {"Provider", "Contract"}

\* an error that ends the loop and hands out what was gathered so far
break_on_error(e, gathered) == Ok(gathered)

\* .await?: the error of a request is what the call returns
propagate(e, gathered) == Err(e)

\* let latest_block = self.l2_client.get_block_number().await?;
get_block_number ==
    /\ pc = "start"
    /\ height_fetches' = height_fetches + 1
    /\ \/ /\ latest_block' = height
          /\ page' = 0
          /\ pc' = "page"
          /\ UNCHANGED result
       \/ /\ result' = propagate("Provider", <<>>)
          /\ pc' = "done"
          /\ UNCHANGED <<latest_block, page>>
    /\ UNCHANGED <<height, listAt, op, worker_id, active_gateways, clusters,
                   requests>>
    /\ UNCHANGED <<allocVars, epochVars, regVars, streamVars, clientVars>>

\* the number of ids of the page that decode
page_size_decoded(gateway_ids) == vec_len(filter_map_from_bytes(gateway_ids))

\* let page_size = U256::from(gateway_ids.len());
page_size_of(gateway_ids) == vec_len(gateway_ids)

\* one turn of the loop of active_gateways
active_gateways_page ==
    /\ pc = "page"
    /\ op = "active_gateways"
    /\ \/ LET gateway_ids == get_page(StateAt(block_of_request), page,
                                      GATEWAYS_PAGE_SIZE)
              page_size == page_size_of(gateway_ids)
              extended == vec_extend(active_gateways,
                                     filter_map_from_bytes(gateway_ids))
          IN /\ requests' = Append(requests,
                                   Request("getActiveGateways", TRUE,
                                           gateway_ids))
             /\ active_gateways' = extended
             /\ IF is_last_page(page_size)
                THEN /\ result' = Ok(extended)
                     /\ pc' = "done"
                     /\ UNCHANGED page
                ELSE /\ page' = next_page(page)
                     /\ UNCHANGED <<result, pc>>
       \/ /\ requests' = Append(requests, Request("getActiveGateways", FALSE,
                                            <<>>))
          /\ \E e \in RequestErrors :
                result' = propagate(e, active_gateways)
          /\ pc' = "done"
          /\ UNCHANGED <<page, active_gateways>>
    /\ UNCHANGED <<height, listAt, op, worker_id, latest_block, clusters,
                   height_fetches>>
    /\ UNCHANGED <<allocVars, epochVars, regVars, streamVars, clientVars>>

\* insert in place of or_insert_with: a later record replaces the cluster
entry_insert(cl, allocation, gateway_peer_id, n) ==
    LET key == allocation.operator
        new == [operator_addr |-> allocation.operator,
                gateway_ids |-> vec_push_n(<<>>, gateway_peer_id, n),
                allocated_computation_units |-> allocation.allocated]
    IN [k \in DOMAIN cl \cup {key} |-> IF k = key THEN new ELSE cl[k]]

\* a push that also takes over the record's CU figure
entry_push_cu(cl, allocation, gateway_peer_id, n) ==
    LET key == allocation.operator
        old == IF key \in DOMAIN cl
               THEN cl[key]
               ELSE [operator_addr |-> allocation.operator,
                     gateway_ids |-> <<>>,
                     allocated_computation_units |-> allocation.allocated]
        new == [old EXCEPT
                  !.gateway_ids = vec_push_n(@, gateway_peer_id, n),
                  !.allocated_computation_units = allocation.allocated]
    IN [k \in DOMAIN cl \cup {key} |-> IF k = key THEN new ELSE cl[k]]

\* clusters.entry(allocation.operator).or_insert_with(..).gateway_ids.push(..)
\* for n consecutive copies of one allocation record
entry_push(cl, allocation, gateway_peer_id, n) ==
    LET key == allocation.operator
        old == IF key \in DOMAIN cl
               THEN cl[key]
               ELSE [operator_addr |-> allocation.operator,
                     gateway_ids |-> <<>>,
                     allocated_computation_units |-> allocation.allocated]
        new == [old EXCEPT !.gateway_ids = vec_push_n(@, gateway_peer_id, n)]
    IN [k \in DOMAIN cl \cup {key} |-> IF k = key THEN new ELSE cl[k]]

\* the map entry made before the gateway id is decoded: an undecodable
\* record leaves a cluster behind
RECURSIVE for_allocations_entry_first(_, _)
for_allocations_entry_first(cl, allocations) ==
    IF allocations = <<>> THEN cl
    ELSE LET allocation == Head(allocations).x
             decoded == from_bytes(allocation.gateway_id)
         IN IF decoded.ok
            THEN for_allocations_entry_first(
                     entry_push(cl, allocation, decoded.value,
                                Head(allocations).n),
                     Tail(allocations))
            ELSE for_allocations_entry_first(
                     entry_push(cl, allocation, <<>>, 0),
                     Tail(allocations))

\* break in place of continue: an undecodable record ends the page
RECURSIVE for_allocations_break(_, _)
for_allocations_break(cl, allocations) ==
    IF allocations = <<>> THEN cl
    ELSE LET allocation == Head(allocations).x
             decoded == from_bytes(allocation.gateway_id)
         IN IF decoded.ok
            THEN for_allocations_break(
                     entry_push(cl, allocation, decoded.value,
                                Head(allocations).n),
                     Tail(allocations))
            ELSE cl

\* for allocation in allocations { .. }
RECURSIVE for_allocations(_, _)
for_allocations(cl, allocations) ==
    IF allocations = <<>> THEN cl
    ELSE LET allocation == Head(allocations).x
             decoded == from_bytes(allocation.gateway_id)
         IN IF decoded.ok
            THEN for_allocations(
                     entry_push(cl, allocation, decoded.value,
                                Head(allocations).n),
                     Tail(allocations))
            ELSE for_allocations(cl, Tail(allocations))

\* clusters.into_values().collect(): the values, in an order the map chooses
into_values(cl) ==
    LET n == Cardinality(DOMAIN cl)
    IN { s \in [1..n -> {cl[k] : k \in DOMAIN cl}] :
           \A k \in DOMAIN cl : \E i \in 1..n : s[i] = cl[k] }

\* one turn of the loop of gateway_clusters
gateway_clusters_page ==
    /\ pc = "page"
    /\ op = "gateway_clusters"
    /\ \/ LET allocations == get_page(StateAt(block_of_request), page,
                                      GATEWAYS_PAGE_SIZE)
              page_size == vec_len(allocations)
              grouped == for_allocations(clusters, allocations)
          IN /\ requests' = Append(requests,
                                   Request("getAllocations", TRUE,
                                           allocations))
             /\ clusters' = grouped
             /\ IF is_last_page(page_size)
                THEN /\ \E values \in into_values(grouped) :
                            result' = Ok(values)
                     /\ pc' = "done"
                     /\ UNCHANGED page
                ELSE /\ page' = next_page(page)
                     /\ UNCHANGED <<result, pc>>
       \/ /\ requests' = Append(requests, Request("getAllocations", FALSE, <<>>))
          /\ \E e \in RequestErrors :
                result' = propagate(e, CHOOSE values \in into_values(clusters) :
                                          TRUE)
          /\ pc' = "done"
          /\ UNCHANGED <<page, clusters>>
    /\ UNCHANGED <<height, listAt, op, worker_id, latest_block,
                   active_gateways, height_fetches>>
    /\ UNCHANGED <<allocVars, epochVars, regVars, streamVars, clientVars>>

EmptyMap == [k \in {} |-> None]

PagedIdle ==
    /\ height = 0
    /\ listAt = << <<>> >>
    /\ op = "active_gateways"
    /\ worker_id = 1
    /\ pc = "idle"
    /\ latest_block = 0
    /\ page = 0
    /\ active_gateways = <<>>
    /\ clusters = EmptyMap
    /\ result = Pending
    /\ requests = <<>>
    /\ height_fetches = 0

AllocIdle ==
    /\ cu = None
    /\ default_strategy_addr = None
    /\ used_strategy = None
    /\ al_pc = "idle"
    /\ al_arg = None
    /\ al_workers = <<>>
    /\ strategy_addr = None
    /\ al_result = None
    /\ al_calls = <<>>

EpochIdle ==
    /\ l1_client = None
    /\ l2_client = None
    /\ nextEpoch = 0
    /\ epochLength = 0
    /\ chainHead = None
    /\ ep_pc = "idle"
    /\ next_epoch_start_block = None
    /\ epoch_length_blocks = None
    /\ ep_result = None
    /\ ep_calls = <<>>

RegIdle ==
    /\ rg_op = "active_workers"
    /\ rg_workers = <<>>
    /\ rg_worker_ids = <<>>
    /\ rg_gateways = EmptyMap
    /\ rg_peer = [code |-> 0, digest |-> <<>>]
    /\ rg_pc = "idle"
    /\ rg_result = Pending
    /\ rg_calls = <<>>

StreamIdle ==
    /\ timer_due = 0
    /\ timer_fired = 0
    /\ st_pc = "idle"
    /\ st_tick = 0
    /\ st_gateways = <<>>
    /\ st_fetched = NoneOpt
    /\ st_issued = <<>>
    /\ items = <<>>
    /\ last_item = Pending

ClientIdle ==
    /\ registry_default = None
    /\ handles = <<>>
    /\ default_reads = <<>>
    /\ decisions = <<>>

Init ==
    /\ height = 0
    /\ listAt = << <<>> >>
    /\ op \in {"active_gateways", "gateway_clusters"}
    /\ worker_id \in IF op = "gateway_clusters" THEN WorkerIds ELSE {1}
    /\ pc = "start"
    /\ latest_block = 0
    /\ page = 0
    /\ active_gateways = <<>>
    /\ clusters = EmptyMap
    /\ result = Pending
    /\ requests = <<>>
    /\ height_fetches = 0
    /\ AllocIdle
    /\ EpochIdle
    /\ RegIdle
    /\ StreamIdle
    /\ ClientIdle

Next ==
    \/ ChainAppend
    \/ ChainRemove
    \/ get_block_number
    \/ active_gateways_page
    \/ gateway_clusters_page

Spec == Init /\ [][Next]_vars

(***************************************************************************)
(* Properties of the paginated reads, checked under Spec.                  *)
(***************************************************************************)
Returned == pc = "done"
Succeeded == pc = "done" /\ result.ok

PageLen(i) == vec_len(requests[i].returned)

\* the entries of the answered pages, in the order they were visited
RECURSIVE VisitedUpTo(_)
VisitedUpTo(i) ==
    IF i = 0 THEN <<>>
    ELSE vec_extend(VisitedUpTo(i - 1), requests[i].returned)

Visited == VisitedUpTo(Len(requests))

\* C1: page requests carry the indices 0, 1, 2, ... and the size 10000; a
\* page shorter than 10000 is the last request of the call and ends it, a
\* page of exactly 10000 is followed by another request; a call that
\* succeeded over a list with k full pages sent exactly k + 1 requests.
C1_PageProtocol ==
    /\ \A i \in 1..Len(requests) :
          /\ requests[i].page = i - 1
          /\ requests[i].size = 10000
          /\ requests[i].ok =>
                /\ PageLen(i) <= 10000
                /\ PageLen(i) < 10000 => i = Len(requests) /\ Succeeded
                /\ PageLen(i) = 10000 => i < Len(requests) \/ pc = "page"
    /\ Succeeded =>
          /\ requests # <<>>
          /\ PageLen(Len(requests)) < 10000
          /\ Len(requests) = (vec_len(StateAt(latest_block)) \div 10000) + 1

\* C1 witness: a call that succeeded with pages of 10000, 10000 and 4321
C1_Witness ==
    /\ Succeeded
    /\ Len(requests) = 3
    /\ PageLen(1) = 10000 /\ PageLen(2) = 10000 /\ PageLen(3) = 4321

\* C2: the block height is fetched once, before the first page request;
\* every page request is pinned to that height, whatever the chain's head
\* is when it is answered; the pages answered are the pages of the list as
\* of that one block, and a successful call has visited exactly that list.
C2_PinnedHeight ==
    /\ height_fetches <= 1
    /\ requests # <<>> => height_fetches = 1
    /\ \A i \in 1..Len(requests) :
          /\ requests[i].block = latest_block
          /\ requests[i].block <= requests[i].head
          /\ requests[i].ok =>
                requests[i].returned =
                    get_page(StateAt(latest_block), i - 1, 10000)
    /\ Succeeded => Visited = StateAt(latest_block)

\* C2 witness: a successful call of several pages, one of them answered
\* after the chain had moved on to a block with another list
C2_Witness ==
    /\ Succeeded
    /\ Len(requests) >= 2
    /\ \E i \in 1..Len(requests) :
          /\ requests[i].head > latest_block
          /\ StateAt(requests[i].head) # StateAt(latest_block)
          /\ get_page(StateAt(requests[i].head), i - 1, 10000)
                # requests[i].returned

Clustered == Succeeded /\ op = "gateway_clusters"

VisitedRecords == { Visited[i].x : i \in 1..Len(Visited) }

Decodable(record) == from_bytes(record.gateway_id).ok

PeerOf(record) == from_bytes(record.gateway_id).value

\* the elements of a Vec, as a set
Elements(v) == { v[i].x : i \in 1..Len(v) }

\* the first visited record of an operator; with decodableOnly, the first
\* one whose gateway id decodes
RECURSIVE FirstOf(_, _, _)
FirstOf(runs, operator, decodableOnly) ==
    IF runs = <<>> THEN [gateway_id |-> <<>>, operator |-> operator,
                         allocated |-> -1]
    ELSE IF /\ Head(runs).x.operator = operator
            /\ decodableOnly => Decodable(Head(runs).x)
         THEN Head(runs).x
         ELSE FirstOf(Tail(runs), operator, decodableOnly)

\* the decodable gateway ids of an operator's visited records, in order
RECURSIVE MembersOf(_, _)
MembersOf(runs, operator) ==
    IF runs = <<>> THEN <<>>
    ELSE IF Head(runs).x.operator = operator /\ Decodable(Head(runs).x)
         THEN vec_extend(<<[x |-> PeerOf(Head(runs).x), n |-> Head(runs).n]>>,
                         MembersOf(Tail(runs), operator))
         ELSE MembersOf(Tail(runs), operator)

ClusterOperators == { result.value[i].operator_addr :
                        i \in 1..Len(result.value) }

NoSharedOperator ==
    \A i, j \in 1..Len(result.value) :
        i # j => result.value[i].operator_addr # result.value[j].operator_addr

EveryMemberListed ==
    \A record \in VisitedRecords :
        Decodable(record) =>
            \E i \in 1..Len(result.value) :
                /\ result.value[i].operator_addr = record.operator
                /\ PeerOf(record) \in Elements(result.value[i].gateway_ids)

\* C6 as stated: one cluster per distinct operator among the visited
\* records, no operator shared by two clusters, every decodable gateway id
\* held by the cluster of its record's operator.
C6_Original ==
    Clustered =>
        /\ NoSharedOperator
        /\ ClusterOperators = { record.operator : record \in VisitedRecords }
        /\ EveryMemberListed

\* C6 amended: one cluster per distinct operator among the visited records
\* whose gateway id decodes; no operator shared by two clusters; two
\* records of one operator with different gateway ids yield one cluster
\* holding both ids.
C6_OneClusterPerOperator ==
    Clustered =>
        /\ NoSharedOperator
        /\ ClusterOperators =
              { record.operator :
                  record \in { r \in VisitedRecords : Decodable(r) } }
        /\ EveryMemberListed

\* C6 witness: two records of one operator with different gateway ids in
\* one cluster, beside a cluster of another operator
C6_Witness ==
    /\ Clustered
    /\ Len(result.value) = 2
    /\ \E i \in 1..Len(result.value) :
          /\ result.value[i].operator_addr = Op1
          /\ Cardinality(Elements(result.value[i].gateway_ids)) = 2

\* C7 as stated: a cluster's CU figure is that of the first record visited
\* for its operator, malformed records included.
C7_Original ==
    Clustered =>
        \A i \in 1..Len(result.value) :
            result.value[i].allocated_computation_units =
                FirstOf(Visited, result.value[i].operator_addr, FALSE).allocated

\* C7 amended: a cluster's CU figure is that of the first visited record of
\* its operator whose gateway id decodes, while the call runs and in its
\* result; later records of the operator do not change it.
C7_FirstDecodableCu ==
    /\ op = "gateway_clusters" =>
          \A k \in DOMAIN clusters :
              clusters[k].allocated_computation_units =
                  FirstOf(Visited, k, TRUE).allocated
    /\ Clustered =>
          \A i \in 1..Len(result.value) :
              result.value[i].allocated_computation_units =
                  FirstOf(Visited, result.value[i].operator_addr,
                          TRUE).allocated

\* C7 witness: the operator's first record is malformed and two decodable
\* records with different CU figures follow it
C7_Witness ==
    /\ Clustered
    /\ Visited # <<>>
    /\ Visited[1].x.operator = Op1
    /\ ~Decodable(Visited[1].x)
    /\ \E i \in 1..Len(result.value) :
          /\ result.value[i].operator_addr = Op1
          /\ Cardinality(Elements(result.value[i].gateway_ids)) = 2

\* C8: gateway_clusters fails only when a request of it failed, never on a
\* record whose gateway id does not decode; each returned member list is
\* the decodable gateway ids of its operator's visited records in
\* pagination order, and every such operator has a cluster.
C8_MalformedSkipped ==
    op = "gateway_clusters" =>
        /\ Returned /\ ~result.ok =>
              \/ requests = <<>> /\ height_fetches = 1
              \/ requests # <<>> /\ ~requests[Len(requests)].ok
        /\ Succeeded =>
              /\ \A i \in 1..Len(result.value) :
                    result.value[i].gateway_ids =
                        MembersOf(Visited, result.value[i].operator_addr)
              /\ \A record \in VisitedRecords :
                    Decodable(record) => record.operator \in ClusterOperators

\* C8 witness: a successful call of several pages that visited a malformed
\* record and then decodable ones
C8_Witness ==
    /\ Clustered
    /\ Len(requests) >= 2
    /\ \E i \in 1..Len(Visited) :
          /\ ~Decodable(Visited[i].x)
          /\ \E j \in (i + 1)..Len(Visited) : Decodable(Visited[j].x)
    /\ result.value # <<>>

(***************************************************************************)
(* Worker::new and active_workers.                                         *)
(***************************************************************************)
\* contracts::Worker entries of the worker registration contract
ChainWorkers ==
    { [peer_id |-> id, creator |-> "0xCreator", bond |-> 100,
       registered_at |-> 10, deregistered_at |-> d] :
          id \in RawIds, d \in {0, 20} }

\* the on-chain figure wrapped as it is, zero included
then_some_always(deregistered_at) == Some(deregistered_at)

\* (worker.deregistered_at > 0).then_some(worker.deregistered_at)
then_some_deregistered_at(deregistered_at) ==
    IF deregistered_at > 0 THEN Some(deregistered_at) ELSE NoneOpt

\* Worker::new
Worker_new(worker, onchain_id) ==
    LET peer_id == from_bytes(worker.peer_id)
    IN IF ~peer_id.ok THEN Err("InvalidPeerId")
       ELSE Ok([peer_id |-> peer_id.value,
                onchain_id |-> onchain_id,
                address |-> worker.creator,
                bond |-> worker.bond,
                registered_at |-> worker.registered_at,
                deregistered_at |->
                    then_some_deregistered_at(worker.deregistered_at)])

Min(a, b) == IF a <= b THEN a ELSE b

\* entries filtered before they are paired: a dropped entry leaves its id to
\* the entry after it
RECURSIVE filter_map_zip_new(_, _)
filter_map_zip_new(workers, onchain_ids) ==
    IF workers = <<>> \/ onchain_ids = <<>> THEN <<>>
    ELSE LET w == Worker_new(Head(workers), Head(onchain_ids))
         IN IF w.ok
            THEN <<w.value>> \o filter_map_zip_new(Tail(workers), Tail(onchain_ids))
            ELSE filter_map_zip_new(Tail(workers), onchain_ids)

\* workers.into_iter().zip(onchain_ids).filter_map(Worker::new ..).collect()
RECURSIVE zip_filter_map_new(_, _)
zip_filter_map_new(workers, onchain_ids) ==
    IF workers = <<>> \/ onchain_ids = <<>> THEN <<>>
    ELSE LET w == Worker_new(Head(workers), Head(onchain_ids))
             rest == zip_filter_map_new(Tail(workers), Tail(onchain_ids))
         IN IF w.ok THEN <<w.value>> \o rest ELSE rest

\* sequences over S of length at most n
SeqsUpTo(S, n) == UNION { [1..k -> S] : k \in 0..n }

\* what the batch of getActiveWorkers and getActiveWorkerIds can return:
\* the registered entries and, in the same order, their distinct ids
ActiveWorkerAnswers ==
    { <<ws, ids>> \in SeqsUpTo(ChainWorkers, MaxWorkers)
                        \X SeqsUpTo(WorkerIds, MaxWorkers) :
         /\ Len(ws) = Len(ids)
         /\ \A i, j \in 1..Len(ids) : i # j => ids[i] # ids[j] }

(***************************************************************************)
(* current_allocations.                                                    *)
(***************************************************************************)
Strategies == {"0xS0", "0xS1"}
CUs == {5, 7}

\* the calling gateway
ClientId == [code |-> 18, digest |-> <<9>>]

\* worker lists a caller supplies
SuppliedWorkers ==
    { Worker_new(w, id).value :
        w \in { c \in ChainWorkers :
                  from_bytes(c.peer_id).ok /\ c.deregistered_at = 0 },
        id \in WorkerIds }

Call(to, fn, args, ok, returned) ==
    [to |-> to, fn |-> fn, args |-> args, ok |-> ok, returned |-> returned]

\* a batch as sent (its sub-calls) and as answered: reverts holds the places
\* of the sub-calls that reverted on chain
BatchCall(fn, calls, ok, reverts, returned) ==
    [to |-> "multicall", fn |-> fn, args |-> calls, ok |-> ok,
     reverts |-> reverts, returned |-> returned]

\* sub-calls added with permission to fail
allow_failure_true == TRUE

\* add_call(.., false): no sub-call of a batch is allowed to fail
allow_failure == FALSE

\* the answers of the sub-calls that did not revert, in order
RECURSIVE answered(_, _, _)
answered(values, reverts, i) ==
    IF i > Len(values) THEN <<>>
    ELSE (IF i \in reverts THEN <<>> ELSE <<values[i]>>)
         \o answered(values, reverts, i + 1)

\* Multicall.call(): the tuple of the sub-calls' answers; a reverted sub-call
\* fails the batch unless it was allowed to fail, and then answers nothing
multicall_call(values, reverts) ==
    IF reverts # {} /\ ~allow_failure THEN Err("Contract")
    ELSE Ok([i \in 1..Len(values) |->
                IF i \in reverts THEN <<>> ELSE values[i]])

\* Multicall.call_array(): the same, as a Vec of the answers
multicall_call_array(values, reverts) ==
    IF reverts # {} /\ ~allow_failure THEN Err("Contract")
    ELSE Ok(answered(values, reverts, 1))

\* Strategy.computationUnitsPerEpoch(gatewayId, workerId) on chain
computationUnitsPerEpoch(strategy, gateway_id, onchain_id) ==
    cu[strategy][onchain_id]

\* an emptiness check that never answers yes
is_empty_never(workers) == FALSE

\* workers.is_empty()
is_empty(workers) == workers = <<>>

\* a comparison that never answers yes
is_default_strategy_never(addr) == FALSE

\* a comparison that always answers yes
is_default_strategy_always(addr) == TRUE

\* strategy_addr == self.default_strategy_addr
is_default_strategy(addr) == addr = default_strategy_addr

\* the last worker in place of the first
last_worker(workers) == workers[Len(workers)]

\* the worker asked about on the fast path
first_worker(workers) == workers[1]

\* workers.into_iter().map(|w| Allocation { .. cus_per_epoch }).collect()
map_allocations(workers, cus_per_epoch) ==
    [i \in 1..Len(workers) |->
        [worker_peer_id |-> workers[i].peer_id,
         worker_onchain_id |-> workers[i].onchain_id,
         computation_units |-> cus_per_epoch]]

\* results paired with the workers in reverse order
zip_allocations_rev(workers, compute_units) ==
    [i \in 1..Min(Len(workers), Len(compute_units)) |->
        [worker_peer_id |-> workers[i].peer_id,
         worker_onchain_id |-> workers[i].onchain_id,
         computation_units |->
             compute_units[Len(compute_units) + 1 - i]]]

\* zip(workers, compute_units).map(|(w, cus)| Allocation { .. }).collect()
zip_allocations(workers, compute_units) ==
    [i \in 1..Min(Len(workers), Len(compute_units)) |->
        [worker_peer_id |-> workers[i].peer_id,
         worker_onchain_id |-> workers[i].onchain_id,
         computation_units |-> compute_units[i]]]

\* the sub-calls added to the batch, one per worker
batch_calls(workers) ==
    [i \in 1..Len(workers) |->
        [to |-> strategy_addr, fn |-> "computationUnitsPerEpoch",
         args |-> <<to_bytes(ClientId), workers[i].onchain_id>>]]

\* what current_allocations returns for a worker list when the gateway uses
\* strategy and every request is answered
current_allocations_ok(strategy, workers) ==
    IF is_empty(workers) THEN <<>>
    ELSE IF is_default_strategy(strategy)
    THEN map_allocations(workers,
             computationUnitsPerEpoch(strategy, to_bytes(ClientId),
                                      first_worker(workers).onchain_id))
    ELSE zip_allocations(workers,
             [i \in 1..Len(workers) |->
                 computationUnitsPerEpoch(strategy, to_bytes(ClientId),
                                          workers[i].onchain_id)])

\* a match that takes the None arm whatever the argument
is_supplied_never(workers) == FALSE

\* match workers { Some(workers) => .., None => .. }
is_supplied(workers) == workers.some

\* Some(workers) => workers, then the is_empty check
workers_supplied ==
    /\ al_pc = "start"
    /\ is_supplied(al_arg)
    /\ al_workers' = al_arg.value
    /\ IF is_empty(al_arg.value)
       THEN /\ al_result' = Ok(<<>>)
            /\ al_pc' = "done"
       ELSE /\ al_pc' = "get_used_strategy"
            /\ UNCHANGED al_result
    /\ UNCHANGED <<cu, default_strategy_addr, used_strategy, al_arg,
                   strategy_addr, al_calls>>
    /\ UNCHANGED <<pagedVars, epochVars, regVars, streamVars, clientVars>>

\* None => self.active_workers().await?, then the is_empty check
workers_fetched ==
    /\ al_pc = "start"
    /\ ~is_supplied(al_arg)
    /\ \/ \E answer \in ActiveWorkerAnswers, reverts \in SUBSET {1, 2} :
            LET got == multicall_call(answer, reverts)
                workers == zip_filter_map_new(got.value[1], got.value[2])
            IN /\ al_calls' = Append(al_calls,
                      BatchCall("call",
                           <<"getActiveWorkers", "getActiveWorkerIds">>,
                           got.ok, reverts,
                           IF got.ok THEN got.value ELSE <<>>))
               /\ IF ~got.ok
                  THEN /\ al_result' = got
                       /\ al_pc' = "done"
                       /\ UNCHANGED al_workers
                  ELSE /\ al_workers' = workers
                       /\ IF is_empty(workers)
                          THEN /\ al_result' = Ok(<<>>)
                               /\ al_pc' = "done"
                          ELSE /\ al_pc' = "get_used_strategy"
                               /\ UNCHANGED al_result
       \/ /\ al_calls' = Append(al_calls,
                 BatchCall("call",
                      <<"getActiveWorkers", "getActiveWorkerIds">>,
                      FALSE, {}, <<>>))
          /\ al_result' = Err("Contract")
          /\ al_pc' = "done"
          /\ UNCHANGED al_workers
    /\ UNCHANGED <<cu, default_strategy_addr, used_strategy, al_arg,
                   strategy_addr>>
    /\ UNCHANGED <<pagedVars, epochVars, regVars, streamVars, clientVars>>

\* self.gateway_registry.get_used_strategy(gateway_id.clone()).call().await?
get_used_strategy ==
    /\ al_pc = "get_used_strategy"
    /\ \/ /\ al_calls' = Append(al_calls,
                 Call("gateway_registry", "getUsedStrategy",
                      <<to_bytes(ClientId)>>, TRUE, used_strategy))
          /\ strategy_addr' = used_strategy
          /\ al_pc' = IF is_default_strategy(used_strategy)
                      THEN "fast_path" ELSE "general_path"
          /\ UNCHANGED al_result
       \/ /\ al_calls' = Append(al_calls,
                 Call("gateway_registry", "getUsedStrategy",
                      <<to_bytes(ClientId)>>, FALSE, None))
          /\ al_result' = Err("Contract")
          /\ al_pc' = "done"
          /\ UNCHANGED strategy_addr
    /\ UNCHANGED <<cu, default_strategy_addr, used_strategy, al_arg,
                   al_workers>>
    /\ UNCHANGED <<pagedVars, epochVars, regVars, streamVars, clientVars>>

\* the default strategy: one call, for the first worker
fast_path ==
    /\ al_pc = "fast_path"
    /\ al_pc' = "done"
    /\ IF Len(al_workers) = 0
       THEN \* workers.first().expect("non empty")
            /\ al_result' = Err("panic")
            /\ UNCHANGED al_calls
       ELSE LET first_worker_id == first_worker(al_workers).onchain_id
                args == <<to_bytes(ClientId), first_worker_id>>
                cus_per_epoch ==
                    computationUnitsPerEpoch(strategy_addr,
                                             to_bytes(ClientId),
                                             first_worker_id)
            IN \/ /\ al_calls' = Append(al_calls,
                         Call(strategy_addr, "computationUnitsPerEpoch",
                              args, TRUE, cus_per_epoch))
                  /\ al_result' = Ok(map_allocations(al_workers,
                                                     cus_per_epoch))
               \/ /\ al_calls' = Append(al_calls,
                         Call(strategy_addr, "computationUnitsPerEpoch",
                              args, FALSE, 0))
                  /\ al_result' = Err("Contract")
    /\ UNCHANGED <<cu, default_strategy_addr, used_strategy, al_arg,
                   al_workers, strategy_addr>>
    /\ UNCHANGED <<pagedVars, epochVars, regVars, streamVars, clientVars>>

\* any other strategy: one batch with one sub-call per worker
general_path ==
    /\ al_pc = "general_path"
    /\ al_pc' = "done"
    /\ LET calls == batch_calls(al_workers)
           compute_units ==
               [i \in 1..Len(calls) |->
                   computationUnitsPerEpoch(calls[i].to, calls[i].args[1],
                                            calls[i].args[2])]
       IN \/ \E reverts \in SUBSET (1..Len(calls)) :
                LET got == multicall_call_array(compute_units, reverts)
                IN /\ al_calls' = Append(al_calls,
                         BatchCall("call_array", calls, got.ok, reverts,
                                   IF got.ok THEN got.value ELSE <<>>))
                   /\ al_result' =
                         IF got.ok
                         THEN Ok(zip_allocations(al_workers, got.value))
                         ELSE got
          \/ /\ al_calls' = Append(al_calls,
                    BatchCall("call_array", calls, FALSE, {}, <<>>))
             /\ al_result' = Err("Contract")
    /\ UNCHANGED <<cu, default_strategy_addr, used_strategy, al_arg,
                   al_workers, strategy_addr>>
    /\ UNCHANGED <<pagedVars, epochVars, regVars, streamVars, clientVars>>

AllocInit ==
    /\ cu \in [Strategies -> [WorkerIds -> CUs]]
    /\ used_strategy \in Strategies
    /\ default_strategy_addr \in Strategies
    /\ al_pc = "start"
    /\ al_arg \in {NoneOpt} \cup
                  { Some(ws) : ws \in SeqsUpTo(SuppliedWorkers, MaxWorkers) }
    /\ al_workers = <<>>
    /\ strategy_addr = None
    /\ al_result = Pending
    /\ al_calls = <<>>
    /\ PagedIdle
    /\ EpochIdle
    /\ RegIdle
    /\ StreamIdle
    /\ ClientIdle

AllocNext ==
    \/ workers_supplied
    \/ workers_fetched
    \/ get_used_strategy
    \/ fast_path
    \/ general_path

SpecAlloc == AllocInit /\ [][AllocNext]_vars

(***************************************************************************)
(* Properties of current_allocations, checked under SpecAlloc.             *)
(***************************************************************************)
AlSucceeded == al_pc = "done" /\ al_result.ok

CallsOf(fn) == { i \in 1..Len(al_calls) : al_calls[i].fn = fn }

DefaultResolved == strategy_addr = default_strategy_addr

OtherResolved == strategy_addr \in Strategies \ {default_strategy_addr}

\* C3: under the default strategy and a non-empty worker list, a successful
\* call sent exactly one computationUnitsPerEpoch call, for the first
\* worker, and no batch of them; every Allocation carries the value that
\* call returned.
C3_FastPathOneCall ==
    AlSucceeded /\ DefaultResolved /\ al_workers # <<>> =>
        /\ Cardinality(CallsOf("computationUnitsPerEpoch")) = 1
        /\ CallsOf("call_array") = {}
        /\ Len(al_result.value) = Len(al_workers)
        /\ \A c \in CallsOf("computationUnitsPerEpoch") :
              /\ al_calls[c].to = default_strategy_addr
              /\ al_calls[c].args =
                    <<to_bytes(ClientId), al_workers[1].onchain_id>>
              /\ \A i \in 1..Len(al_result.value) :
                    al_result.value[i].computation_units =
                        al_calls[c].returned

\* C3 witness: the fast path over two workers whose own figures differ
C3_Witness ==
    /\ AlSucceeded
    /\ DefaultResolved
    /\ Len(al_workers) = 2
    /\ cu[strategy_addr][al_workers[1].onchain_id]
          # cu[strategy_addr][al_workers[2].onchain_id]

\* C4: a successful call returns one Allocation per input worker, element i
\* carrying the peer id and on-chain id of worker i; under a non-default
\* strategy its CU value is the one the batch returned for sub-call i, which
\* asked about worker i.
C4_PositionalAlignment ==
    AlSucceeded =>
        /\ al_arg.some => al_workers = al_arg.value
        /\ Len(al_result.value) = Len(al_workers)
        /\ \A i \in 1..Len(al_result.value) :
              /\ al_result.value[i].worker_peer_id = al_workers[i].peer_id
              /\ al_result.value[i].worker_onchain_id =
                    al_workers[i].onchain_id
        /\ OtherResolved =>
              /\ Cardinality(CallsOf("call_array")) = 1
              /\ \A c \in CallsOf("call_array") :
                    /\ Len(al_calls[c].args) = Len(al_workers)
                    /\ \A i \in 1..Len(al_workers) :
                          /\ al_calls[c].args[i].args[2] =
                                al_workers[i].onchain_id
                          /\ al_result.value[i].computation_units =
                                al_calls[c].returned[i]
                          /\ al_result.value[i].computation_units =
                                cu[strategy_addr][al_workers[i].onchain_id]

\* C4 witness: the general path over two workers whose figures differ
C4_Witness ==
    /\ AlSucceeded
    /\ OtherResolved
    /\ Len(al_workers) = 2
    /\ al_result.value[1].computation_units
          # al_result.value[2].computation_units

\* C5: called with Some(empty list), current_allocations sends no contract
\* call at any point and returns the empty list.
C5_EmptyListNoCalls ==
    al_arg.some /\ al_arg.value = <<>> =>
        /\ al_calls = <<>>
        /\ al_pc \in {"start", "done"}
        /\ al_pc = "done" => al_result = Ok(<<>>)

\* C5 witness: the call with Some(empty list) has returned
C5_Witness ==
    /\ al_arg.some
    /\ al_arg.value = <<>>
    /\ al_pc = "done"

(***************************************************************************)
(* get_client and current_epoch_start.  An endpoint serves the blocks      *)
(* 0..chainHead[endpoint] of its chain; the network controller lives on    *)
(* the chain behind rpc_url.  U256 values stay far below 2^64 here, so the *)
(* conversion of the block number to u64 always succeeds.                  *)
(***************************************************************************)
RpcUrl == "rpc_url"
L1RpcUrl == "l1_rpc_url"
Endpoints == {RpcUrl, L1RpcUrl}

\* timestamp of block n of the chain behind an endpoint
BlockTimestamp(endpoint, n) ==
    IF endpoint = L1RpcUrl THEN 1000 + 12 * n ELSE 5000 + n

\* Provider::get_block(BlockId::Number(n)) as the endpoint answers it
chain_get_block(endpoint, n) ==
    IF n <= chainHead[endpoint]
    THEN Some([number |-> n, timestamp |-> BlockTimestamp(endpoint, n)])
    ELSE NoneOpt

\* get_client: the L1 connection, or the main one when no L1 URL is given
get_client_l1(l1_rpc_url, l2) ==
    IF l1_rpc_url.some THEN l1_rpc_url.value ELSE l2

\* NetworkController::get(l2_client.clone(), ..): where controller reads go
controller_client == l2_client

\* the block looked up on the connection of the contracts
block_client_l2 == l2_client

\* self.l1_client.get_block(..): where the block lookup goes
block_client == l1_client

\* next_epoch_start_block - epoch_length_blocks: U256 subtraction panics
\* when the result would be negative
checked_sub(a, b) == IF a >= b THEN Ok(a - b) ELSE Err("panic")

\* a missing block read as the default block
unwrap_or_default(block) ==
    IF block.some THEN Ok(block.value)
    ELSE Ok([number |-> 0, timestamp |-> 0])

\* .ok_or(ClientError::BlockNotFound)
ok_or_BlockNotFound(block) ==
    IF block.some THEN Ok(block.value) ELSE Err("BlockNotFound")

\* UNIX_EPOCH + Duration::from_secs(secs), in seconds since the Unix epoch
UNIX_EPOCH_plus(secs) == 0 + secs

EpCall(conn, req, arg, ok, returned) ==
    [conn |-> conn, req |-> req, arg |-> arg, ok |-> ok,
     returned |-> returned]

\* self.network_controller.next_epoch().call().await?
next_epoch ==
    /\ ep_pc = "start"
    /\ \/ /\ ep_calls' = Append(ep_calls,
                 EpCall(controller_client, "nextEpoch", 0, TRUE, nextEpoch))
          /\ next_epoch_start_block' = nextEpoch
          /\ ep_pc' = "epoch_length"
          /\ UNCHANGED ep_result
       \/ /\ ep_calls' = Append(ep_calls,
                 EpCall(controller_client, "nextEpoch", 0, FALSE, 0))
          /\ ep_result' = Err("Contract")
          /\ ep_pc' = "done"
          /\ UNCHANGED next_epoch_start_block
    /\ UNCHANGED <<l1_client, l2_client, nextEpoch, epochLength, chainHead,
                   epoch_length_blocks>>
    /\ UNCHANGED <<pagedVars, allocVars, regVars, streamVars, clientVars>>

\* self.network_controller.epoch_length().call().await?
epoch_length ==
    /\ ep_pc = "epoch_length"
    /\ \/ /\ ep_calls' = Append(ep_calls,
                 EpCall(controller_client, "epochLength", 0, TRUE,
                        epochLength))
          /\ epoch_length_blocks' = epochLength
          /\ ep_pc' = "get_block"
          /\ UNCHANGED ep_result
       \/ /\ ep_calls' = Append(ep_calls,
                 EpCall(controller_client, "epochLength", 0, FALSE, 0))
          /\ ep_result' = Err("Contract")
          /\ ep_pc' = "done"
          /\ UNCHANGED epoch_length_blocks
    /\ UNCHANGED <<l1_client, l2_client, nextEpoch, epochLength, chainHead,
                   next_epoch_start_block>>
    /\ UNCHANGED <<pagedVars, allocVars, regVars, streamVars, clientVars>>

\* the subtraction, the block lookup and the conversion of its timestamp
get_block ==
    /\ ep_pc = "get_block"
    /\ ep_pc' = "done"
    /\ LET block_num == checked_sub(next_epoch_start_block,
                                    epoch_length_blocks)
       IN IF ~block_num.ok
          THEN /\ ep_result' = block_num
               /\ UNCHANGED ep_calls
          ELSE LET found == chain_get_block(block_client, block_num.value)
                   block == ok_or_BlockNotFound(found)
               IN \/ /\ ep_calls' = Append(ep_calls,
                            EpCall(block_client, "getBlock",
                                   block_num.value, TRUE, found))
                     /\ ep_result' =
                           IF block.ok
                           THEN Ok(UNIX_EPOCH_plus(block.value.timestamp))
                           ELSE block
                  \/ /\ ep_calls' = Append(ep_calls,
                            EpCall(block_client, "getBlock",
                                   block_num.value, FALSE, NoneOpt))
                     /\ ep_result' = Err("Provider")
    /\ UNCHANGED <<l1_client, l2_client, nextEpoch, epochLength, chainHead,
                   next_epoch_start_block, epoch_length_blocks>>
    /\ UNCHANGED <<pagedVars, allocVars, regVars, streamVars, clientVars>>

EpochInit ==
    /\ l2_client = RpcUrl
    /\ \E l1_rpc_url \in {NoneOpt, Some(L1RpcUrl)} :
           l1_client = get_client_l1(l1_rpc_url, l2_client)
    /\ nextEpoch \in {100, 1000, 1100}
    /\ epochLength \in {100, 200}
    /\ chainHead \in [Endpoints -> {850, 950, 2000}]
    /\ ep_pc = "start"
    /\ next_epoch_start_block = 0
    /\ epoch_length_blocks = 0
    /\ ep_result = Pending
    /\ ep_calls = <<>>
    /\ PagedIdle
    /\ AllocIdle
    /\ RegIdle
    /\ StreamIdle
    /\ ClientIdle

EpochNext ==
    \/ next_epoch
    \/ epoch_length
    \/ get_block

SpecEpoch == EpochInit /\ [][EpochNext]_vars

(***************************************************************************)
(* Properties of current_epoch_start, checked under SpecEpoch.             *)
(***************************************************************************)
EpCallsOf(req) == { i \in 1..Len(ep_calls) : ep_calls[i].req = req }

ControllerReads == EpCallsOf("nextEpoch") \cup EpCallsOf("epochLength")

ReadsSucceeded ==
    /\ \A i \in ControllerReads : ep_calls[i].ok
    /\ EpCallsOf("nextEpoch") # {}
    /\ EpCallsOf("epochLength") # {}

\* C9: the block looked up is numbered nextEpoch - epochLength as read from
\* the controller; the lookup goes to the L1 connection and the controller
\* reads to the L2 connection, so with distinct connections neither kind of
\* request reaches the other one; a successful call returns the timestamp
\* of that block of the anchor chain.
C9_AnchorBlock ==
    /\ \A i \in EpCallsOf("getBlock") :
          /\ ep_calls[i].arg = next_epoch_start_block - epoch_length_blocks
          /\ ReadsSucceeded
          /\ ep_calls[i].conn = l1_client
          /\ l1_client # l2_client => ep_calls[i].conn # l2_client
    /\ \A i \in ControllerReads :
          /\ ep_calls[i].conn = l2_client
          /\ l1_client # l2_client => ep_calls[i].conn # l1_client
    /\ ep_pc = "done" /\ ep_result.ok =>
          /\ Cardinality(EpCallsOf("getBlock")) = 1
          /\ ep_result.value =
                BlockTimestamp(l1_client, nextEpoch - epochLength)
          /\ \A i \in EpCallsOf("getBlock") :
                ep_result.value = ep_calls[i].returned.value.timestamp

\* C9 witness: nextEpoch = 1000 and epochLength = 100 with distinct
\* connections: block 900 was looked up and its timestamp returned
C9_Witness ==
    /\ ep_pc = "done"
    /\ ep_result.ok
    /\ l1_client # l2_client
    /\ nextEpoch = 1000 /\ epochLength = 100
    /\ \E i \in EpCallsOf("getBlock") : ep_calls[i].arg = 900

AnchorBlockMissing ==
    /\ nextEpoch >= epochLength
    /\ nextEpoch - epochLength > chainHead[l1_client]

Address_zero == "0x0"

\* gateway ids the registry is asked about
GatewayIds == {IdA, IdB, IdC}

\* contracts::Gateway as getGateway returns it; an id that was never
\* registered comes back as the zeroed struct
ChainGateway(operator) ==
    [operator |-> operator,
     ownAddress |-> IF operator = Address_zero THEN Address_zero ELSE "0xOwn"]

\* GatewayRegistry.getGateway(id) on chain
getGateway(gateway_id) == rg_gateways[gateway_id]

\* gateway_info.operator == Address::zero()
is_operator_zero(gateway_info) == gateway_info.operator = Address_zero

\* gateway_info.operator != Address::zero()
is_operator_set(gateway_info) == gateway_info.operator # Address_zero

\* active_workers: the batch of getActiveWorkers and getActiveWorkerIds, then
\* the zip and the filter_map
active_workers_call ==
    /\ rg_pc = "start"
    /\ rg_op = "active_workers"
    /\ \/ \E reverts \in SUBSET {1, 2} :
             LET got == multicall_call(<<rg_workers, rg_worker_ids>>, reverts)
             IN /\ rg_calls' = Append(rg_calls,
                      BatchCall("call",
                           <<"getActiveWorkers", "getActiveWorkerIds">>,
                           got.ok, reverts,
                           IF got.ok THEN got.value ELSE <<>>))
                /\ rg_result' =
                      IF got.ok
                      THEN Ok(zip_filter_map_new(got.value[1], got.value[2]))
                      ELSE got
       \/ /\ rg_calls' = Append(rg_calls,
                BatchCall("call",
                     <<"getActiveWorkers", "getActiveWorkerIds">>, FALSE, {},
                     <<>>))
          /\ rg_result' = Err("Contract")
    /\ rg_pc' = "done"
    /\ UNCHANGED <<rg_op, rg_workers, rg_worker_ids, rg_gateways, rg_peer>>
    /\ UNCHANGED <<pagedVars, allocVars, epochVars, streamVars, clientVars>>

\* is_gateway_registered
is_gateway_registered_call ==
    /\ rg_pc = "start"
    /\ rg_op = "is_gateway_registered"
    /\ LET gateway_id == to_bytes(rg_peer)
       IN \/ LET gateway_info == getGateway(gateway_id)
             IN /\ rg_calls' = Append(rg_calls,
                      Call("gateway_registry", "getGateway", <<gateway_id>>,
                           TRUE, gateway_info))
                /\ rg_result' = Ok(is_operator_set(gateway_info))
          \/ /\ rg_calls' = Append(rg_calls,
                   Call("gateway_registry", "getGateway", <<gateway_id>>,
                        FALSE, ChainGateway(Address_zero)))
             /\ rg_result' = Err("Contract")
    /\ rg_pc' = "done"
    /\ UNCHANGED <<rg_op, rg_workers, rg_worker_ids, rg_gateways, rg_peer>>
    /\ UNCHANGED <<pagedVars, allocVars, epochVars, streamVars, clientVars>>

RegInit ==
    /\ rg_op \in {"active_workers", "is_gateway_registered"}
    /\ \E answer \in ActiveWorkerAnswers :
          /\ rg_workers = answer[1]
          /\ rg_worker_ids = answer[2]
    /\ rg_gateways \in
          [GatewayIds -> {ChainGateway(o) : o \in {Address_zero, Op1}}]
    /\ rg_peer \in { from_bytes(id).value : id \in GatewayIds }
    /\ rg_op = "active_workers" =>
          /\ rg_gateways = [id \in GatewayIds |-> ChainGateway(Address_zero)]
          /\ rg_peer = from_bytes(IdA).value
    /\ rg_op = "is_gateway_registered" =>
          rg_workers = <<>>
    /\ rg_pc = "start"
    /\ rg_result = Pending
    /\ rg_calls = <<>>
    /\ PagedIdle
    /\ AllocIdle
    /\ EpochIdle
    /\ StreamIdle
    /\ ClientIdle

RegNext ==
    \/ active_workers_call
    \/ is_gateway_registered_call

SpecReg == RegInit /\ [][RegNext]_vars

(***************************************************************************)
(* Properties of active_workers and is_gateway_registered, checked under   *)
(* SpecReg.                                                                *)
(***************************************************************************)
RgReturned(o) == rg_op = o /\ rg_pc = "done"

\* positions of the on-chain entries whose peer-id bytes decode
DecodableAt ==
    { i \in 1..Len(rg_workers) : from_bytes(rg_workers[i].peer_id).ok }

\* the place of decodable entry i among the decodable entries
Rank(i) == Cardinality({ j \in DecodableAt : j <= i })

\* C14: active_workers fails only when its batch request fails, never because
\* of a malformed entry; the list it returns holds exactly the entries whose
\* peer-id bytes decode, in on-chain order, each with the on-chain id found
\* at the entry's own position in the id list.
C14_DecodableInOrder ==
    RgReturned("active_workers") =>
        /\ rg_result.ok <=> rg_calls[1].ok
        /\ rg_result.ok =>
              /\ Len(rg_result.value) = Cardinality(DecodableAt)
              /\ \A i \in DecodableAt :
                    LET w == rg_result.value[Rank(i)]
                    IN /\ w.peer_id = from_bytes(rg_workers[i].peer_id).value
                       /\ w.onchain_id = rg_worker_ids[i]
                       /\ w.address = rg_workers[i].creator
                       /\ w.bond = rg_workers[i].bond
                       /\ w.registered_at = rg_workers[i].registered_at

\* C14 witness: the first of two entries does not decode; the call returned
\* the second alone, with the second id
C14_Witness ==
    /\ RgReturned("active_workers")
    /\ Len(rg_workers) = 2
    /\ rg_workers[1].peer_id = IdBad
    /\ rg_workers[2].peer_id = IdA
    /\ rg_worker_ids = <<1, 2>>
    /\ rg_result.ok
    /\ Len(rg_result.value) = 1
    /\ rg_result.value[1].onchain_id = 2

\* C15: deregistered_at of every returned worker is absent or strictly
\* positive; an on-chain figure of zero comes back absent, a positive one
\* comes back as it is.
C15_DeregisteredAt ==
    RgReturned("active_workers") /\ rg_result.ok =>
        /\ \A k \in 1..Len(rg_result.value) :
              LET d == rg_result.value[k].deregistered_at
              IN ~d.some \/ d.value > 0
        /\ \A i \in DecodableAt :
              LET d == rg_result.value[Rank(i)].deregistered_at
              IN IF rg_workers[i].deregistered_at = 0
                 THEN d = NoneOpt
                 ELSE d = Some(rg_workers[i].deregistered_at)

\* C15 witness: a returned list with one worker whose on-chain figure is
\* zero and one whose figure is positive
C15_Witness ==
    /\ RgReturned("active_workers")
    /\ rg_result.ok
    /\ Len(rg_result.value) = 2
    /\ rg_workers[1].deregistered_at = 0
    /\ rg_workers[2].deregistered_at = 20
    /\ rg_result.value[1].deregistered_at = NoneOpt
    /\ rg_result.value[2].deregistered_at = Some(20)

\* the registry record of the gateway whose id bytes decode to peer
RecordOf(peer) ==
    CHOOSE g \in { rg_gateways[id] : id \in
                     { i \in GatewayIds : from_bytes(i).value = peer } } : TRUE

\* C16: when the registry answers, is_gateway_registered returns true exactly
\* when the operator field of the peer's record is not the zero address; it
\* fails only when the request fails.
C16_OperatorNotZero ==
    RgReturned("is_gateway_registered") =>
        /\ rg_result.ok <=> rg_calls[1].ok
        /\ rg_result.ok =>
              (rg_result.value <=> RecordOf(rg_peer).operator # Address_zero)
        /\ rg_calls[1].args = <<CHOOSE i \in GatewayIds :
                                   from_bytes(i).value = rg_peer>>

\* C16 witness: one gateway registered, another not, and the call answered
\* true for the registered one
C16_Witness ==
    /\ RgReturned("is_gateway_registered")
    /\ rg_peer = from_bytes(IdB).value
    /\ rg_gateways[IdB].operator = Op1
    /\ rg_gateways[IdA].operator = Address_zero
    /\ rg_result = Ok(TRUE)

\* C16 second case: the call answered false for an unregistered gateway
C16_WitnessUnregistered ==
    /\ RgReturned("is_gateway_registered")
    /\ rg_peer = from_bytes(IdA).value
    /\ rg_gateways[IdA].operator = Address_zero
    /\ rg_gateways[IdB].operator = Op1
    /\ rg_result = Ok(FALSE)

(***************************************************************************)
(* Properties of current_epoch_start on controller figures whose           *)
(* difference is negative, checked under SpecEpoch.                        *)
(***************************************************************************)
\* the errors current_epoch_start hands to its caller
ClientErrors == {"Contract", "Provider", "BlockNotFound"}

\* C17: current_epoch_start returns a value or an error to its caller for
\* every pair of nextEpoch and epochLength the controller reports; it never
\* panics.
C17_ValueOrError ==
    ep_pc = "done" => ep_result.ok \/ ep_result.err \in ClientErrors

\* C19: the subtraction nextEpoch - epochLength saturates: when epochLength
\* is greater than nextEpoch the block number is zero, so the call looks up
\* block 0 and does not abort.
C19_SaturatingSub ==
    /\ ep_pc = "done"
    /\ ReadsSucceeded
    /\ epoch_length_blocks > next_epoch_start_block
    => /\ ep_result # Err("panic")
       /\ \E i \in EpCallsOf("getBlock") : ep_calls[i].arg = 0

(***************************************************************************)
(* Choice of path and determinism of current_allocations, checked under    *)
(* SpecAlloc.                                                              *)
(***************************************************************************)
\* the strategy the registry answered with
Resolved == { al_calls[i].returned : i \in
                { j \in CallsOf("getUsedStrategy") : al_calls[j].ok } }

\* every other worker list a caller may pass
OtherLists == SeqsUpTo(SuppliedWorkers, MaxWorkers)

\* the CU a call over list ws reports for the worker at place j is the CU
\* this call reported for the same worker at place i
SameCuElsewhere(i) ==
    \A ws \in OtherLists : \A j \in 1..Len(ws) :
        ws[j].onchain_id = al_workers[i].onchain_id =>
            current_allocations_ok(strategy_addr, ws)[j].computation_units
                = al_result.value[i].computation_units

\* the strategy gives every worker the same figure
Uniform(strategy) ==
    \A a, b \in WorkerIds : cu[strategy][a] = cu[strategy][b]

\* C18 as stated: for the chain state of the run, the CU a successful call
\* reports for a worker is the CU every other call, over any other list
\* holding that worker at any place, reports for it.
C18_Original ==
    AlSucceeded =>
        /\ al_result.value = current_allocations_ok(strategy_addr, al_workers)
        /\ \A i \in 1..Len(al_result.value) : SameCuElsewhere(i)

\* C18, amended: the same, when the resolved strategy is not the client's
\* default strategy or the default strategy gives every worker the same
\* figure; the reported CU is then the chain's own figure for that worker.
C18_DeterministicCu ==
    AlSucceeded =>
        /\ al_result.value = current_allocations_ok(strategy_addr, al_workers)
        /\ al_workers # <<>> /\ (OtherResolved \/ Uniform(strategy_addr)) =>
              \A i \in 1..Len(al_result.value) :
                 /\ SameCuElsewhere(i)
                 /\ al_result.value[i].computation_units =
                       cu[strategy_addr][al_workers[i].onchain_id]

\* C18 witness: under a non-default strategy whose figures differ, a call
\* over the workers 2, 1 in that order has returned
C18_Witness ==
    /\ AlSucceeded
    /\ OtherResolved
    /\ ~Uniform(strategy_addr)
    /\ Len(al_workers) = 2
    /\ al_workers[1].onchain_id = 2
    /\ al_workers[2].onchain_id = 1

\* C20: the fast path (one computationUnitsPerEpoch call sent on its own) is
\* taken exactly when the strategy the registry answered with equals the
\* default strategy address the client holds; with any other answer the
\* call sends one batch holding one computationUnitsPerEpoch sub-call per
\* input worker, in input order, each addressed to the answered strategy.
C20_PathByStrategy ==
    /\ CallsOf("computationUnitsPerEpoch") # {} =>
          /\ Resolved = {default_strategy_addr}
          /\ CallsOf("call_array") = {}
    /\ \A c \in CallsOf("call_array") :
          /\ Resolved = {used_strategy}
          /\ used_strategy # default_strategy_addr
          /\ CallsOf("computationUnitsPerEpoch") = {}
          /\ Cardinality(CallsOf("call_array")) = 1
          /\ Len(al_calls[c].args) = Len(al_workers)
          /\ \A i \in 1..Len(al_workers) :
                al_calls[c].args[i] =
                    [to |-> used_strategy, fn |-> "computationUnitsPerEpoch",
                     args |-> <<to_bytes(ClientId), al_workers[i].onchain_id>>]
    /\ al_pc = "fast_path" => Resolved = {default_strategy_addr}
    /\ al_pc = "general_path" =>
          Resolved # {} /\ Resolved # {default_strategy_addr}
    /\ al_pc = "done" /\ Resolved # {} =>
          IF Resolved = {default_strategy_addr}
          THEN Cardinality(CallsOf("computationUnitsPerEpoch")) = 1
          ELSE Cardinality(CallsOf("call_array")) = 1

\* C20 witness: the registry answered with a strategy other than the default
\* and the batch over two workers was sent
C20_Witness ==
    /\ al_pc = "done"
    /\ used_strategy # default_strategy_addr
    /\ \E c \in CallsOf("call_array") : Len(al_calls[c].args) = 2

\* C20 second case: the registry answered with the default strategy and the
\* single call was sent
C20_WitnessFastPath ==
    /\ al_pc = "done"
    /\ used_strategy = default_strategy_addr
    /\ Len(al_workers) = 2
    /\ Cardinality(CallsOf("computationUnitsPerEpoch")) = 1

(***************************************************************************)
(* network_nodes_stream: an interval timer whose ticks are mapped, one at  *)
(* a time, to the outcome of active_gateways followed by active_workers.   *)
(***************************************************************************)
\* active_gateways over a registry list that does not change, when every
\* request is answered: the pages from page p on, appended to acc
RECURSIVE active_gateways_from(_, _, _)
active_gateways_from(list, p, acc) ==
    LET gateway_ids == get_page(list, p, GATEWAYS_PAGE_SIZE)
        extended == vec_extend(acc, filter_map_from_bytes(gateway_ids))
    IN IF is_last_page(page_size_of(gateway_ids))
       THEN extended
       ELSE active_gateways_from(list, next_page(p), extended)

active_gateways_ok(list) == active_gateways_from(list, 0, <<>>)

\* active_workers when its batch is answered
active_workers_ok(answer) == zip_filter_map_new(answer[1], answer[2])

\* the registry's gateway list at the time of a tick
RECURSIVE vec_from_seq(_)
vec_from_seq(q) ==
    IF q = <<>> THEN <<>>
    ELSE vec_push_n(vec_from_seq(SubSeq(q, 1, Len(q) - 1)), q[Len(q)], 1)

StreamGatewayLists ==
    { vec_from_seq(q) : q \in SeqsUpTo({IdB, IdC, IdBad}, MaxNodes) }

\* HashSet::from_iter(gateways)
HashSet_from_iter(v) == { v[i].x : i \in 1..Len(v) }

\* the worker peer ids left out of the set
extend_nothing(nodes, workers) == nodes

\* nodes.extend(workers.into_iter().map(|w| w.peer_id))
extend_peer_ids(nodes, workers) ==
    nodes \cup { workers[k].peer_id : k \in 1..Len(workers) }

\* a stream that ends with its first error item
after_item_try(item) == IF item.ok THEN "interval" ELSE "closed"

\* where the stream is once an item, Ok or Err, has been handed out: back at
\* the interval
after_item(item) == "interval"

\* a combinator that starts the closure for every tick that is due
may_poll_interval_always(at) == at # "closed"

\* then: the interval is polled for its next tick only while no future of
\* the closure is pending
may_poll_interval(at) == at = "interval"

\* a fetch of a tick as it ended
Fetch(fn, res) ==
    [fn |-> fn, ok |-> res.ok, err |-> IF res.ok THEN "none" ELSE res.err]

\* an error that hands out the peer ids fetched so far
partial_nodes(e, nodes) == Ok(nodes)

\* .await? in the closure: the error of a fetch is the closure's outcome
try_fetch(e, nodes) == Err(e)

\* the item summary the consumer's log keeps
Item(res, at) == [tick |-> st_tick, ok |-> res.ok, at |-> at]

\* the interval elapses once more
TimerFire ==
    /\ timer_fired < MaxTicks
    /\ timer_fired' = timer_fired + 1
    /\ timer_due' = timer_due + 1
    /\ UNCHANGED <<st_pc, st_tick, st_gateways, st_fetched, st_issued, items,
                   last_item>>
    /\ UNCHANGED <<pagedVars, allocVars, epochVars, regVars, clientVars>>

\* the stream takes a due tick and runs the closure: let client =
\* self.clone_client()
tick_start ==
    /\ may_poll_interval(st_pc)
    /\ timer_due > 0
    /\ timer_due' = timer_due - 1
    /\ st_tick' = st_tick + 1
    /\ st_pc' = "active_gateways"
    /\ st_gateways' = <<>>
    /\ st_fetched' = NoneOpt
    /\ st_issued' = <<>>
    /\ UNCHANGED <<timer_fired, items, last_item>>
    /\ UNCHANGED <<pagedVars, allocVars, epochVars, regVars, clientVars>>

\* let gateways = client.active_gateways().await?;
fetch_gateways ==
    /\ st_pc = "active_gateways"
    /\ \/ \E list \in StreamGatewayLists :
             /\ st_gateways' = active_gateways_ok(list)
             /\ st_issued' = Append(st_issued,
                                    Fetch("active_gateways", Ok(<<>>)))
             /\ st_pc' = "active_workers"
             /\ UNCHANGED <<items, last_item>>
       \/ \E e \in RequestErrors :
             LET item == try_fetch(e, {})
             IN /\ st_issued' = Append(st_issued,
                                       Fetch("active_gateways", Err(e)))
                /\ last_item' = item
                /\ items' = Append(items, Item(item, "active_gateways"))
                /\ st_pc' = after_item(item)
                /\ UNCHANGED st_gateways
    /\ UNCHANGED <<timer_due, timer_fired, st_tick, st_fetched>>
    /\ UNCHANGED <<pagedVars, allocVars, epochVars, regVars, clientVars>>

\* let workers = client.active_workers().await?; then the set is built
fetch_workers ==
    /\ st_pc = "active_workers"
    /\ \/ \E answer \in ActiveWorkerAnswers :
             LET workers == active_workers_ok(answer)
                 nodes == extend_peer_ids(HashSet_from_iter(st_gateways),
                                          workers)
             IN /\ st_fetched' = Some([gateways |-> st_gateways,
                                       workers |-> workers])
                /\ st_issued' = Append(st_issued,
                                       Fetch("active_workers", Ok(<<>>)))
                /\ last_item' = Ok(nodes)
                /\ items' = Append(items, Item(Ok(nodes), "nodes"))
                /\ st_pc' = after_item(Ok(nodes))
       \/ LET item == try_fetch("Contract", HashSet_from_iter(st_gateways))
          IN /\ st_issued' = Append(st_issued,
                                    Fetch("active_workers", Err("Contract")))
             /\ last_item' = item
             /\ items' = Append(items, Item(item, "active_workers"))
             /\ st_pc' = after_item(item)
             /\ UNCHANGED st_fetched
    /\ st_gateways' = <<>>
    /\ UNCHANGED <<timer_due, timer_fired, st_tick>>
    /\ UNCHANGED <<pagedVars, allocVars, epochVars, regVars, clientVars>>

\* tokio::time::interval: the first tick completes at once
StreamInit ==
    /\ timer_due = 1
    /\ timer_fired = 1
    /\ st_pc = "interval"
    /\ st_tick = 0
    /\ st_gateways = <<>>
    /\ st_fetched = NoneOpt
    /\ st_issued = <<>>
    /\ items = <<>>
    /\ last_item = Pending
    /\ PagedIdle
    /\ AllocIdle
    /\ EpochIdle
    /\ RegIdle
    /\ ClientIdle

StreamNext ==
    \/ TimerFire
    \/ tick_start
    \/ fetch_gateways
    \/ fetch_workers

SpecStream == StreamInit /\ [][StreamNext]_vars

\* the consumer keeps polling and the timer keeps running
SpecStreamLive ==
    /\ StreamInit
    /\ [][StreamNext]_vars
    /\ WF_vars(TimerFire)
    /\ WF_vars(tick_start)
    /\ WF_vars(fetch_gateways)
    /\ WF_vars(fetch_workers)

(***************************************************************************)
(* Properties of the membership stream, checked under SpecStream and, for  *)
(* progress, under SpecStreamLive.                                         *)
(***************************************************************************)
Fetching == st_pc \in {"active_gateways", "active_workers"}

PeerA == from_bytes(IdA).value
PeerB == from_bytes(IdB).value
PeerC == from_bytes(IdC).value

\* C11: the item of a tick whose two fetches both succeeded is Ok and holds
\* exactly the peer ids that are in the gateway list or are the peer id of a
\* worker in the worker list, each once; an Ok item comes from no other tick.
C11_UnionOfBoth ==
    /\ st_fetched.some =>
          /\ items # <<>>
          /\ items[Len(items)].tick = st_tick
          /\ last_item.ok
          /\ \A i \in 1..Len(st_fetched.value.gateways) :
                st_fetched.value.gateways[i].x \in last_item.value
          /\ \A k \in 1..Len(st_fetched.value.workers) :
                st_fetched.value.workers[k].peer_id \in last_item.value
          /\ \A p \in last_item.value :
                \/ \E i \in 1..Len(st_fetched.value.gateways) :
                      st_fetched.value.gateways[i].x = p
                \/ \E k \in 1..Len(st_fetched.value.workers) :
                      st_fetched.value.workers[k].peer_id = p
    /\ items # <<>> /\ items[Len(items)].ok /\ ~Fetching => st_fetched.some

\* C11 witness: gateways C, B and workers B, A gave the item {A, B, C}
C11_Witness ==
    /\ st_fetched.some
    /\ HashSet_from_iter(st_fetched.value.gateways) = {PeerC, PeerB}
    /\ Len(st_fetched.value.workers) = 2
    /\ st_fetched.value.workers[1].peer_id = PeerB
    /\ st_fetched.value.workers[2].peer_id = PeerA
    /\ last_item = Ok({PeerA, PeerB, PeerC})
    /\ Cardinality(last_item.value) = 3

\* C12: the stream never ends because a tick failed: after an error item
\* for tick n the stream is back at the interval, and with the timer running
\* and the consumer polling, a later tick runs and hands out an item of its
\* own.  (The model's timer elapses MaxTicks times, so n < MaxTicks.)
C12_ErrorDoesNotEnd ==
    /\ [](st_pc # "closed")
    /\ \A n \in 1..(MaxTicks - 1) :
          (Len(items) = n /\ ~items[n].ok) ~> (Len(items) > n)

\* C12 witness: the first tick failed, the second handed out an Ok item
C12_Witness ==
    /\ Len(items) >= 2
    /\ ~items[1].ok
    /\ items[2].tick = 2
    /\ items[2].ok

\* C13: ticks run one at a time: while the fetches of tick n + 1 are under
\* way the items of ticks 1..n have all been handed out, however many
\* intervals have elapsed meanwhile; the items are in tick order, one per
\* tick that ran, and every elapsed interval is taken at most once.
C13_TicksSequential ==
    /\ Fetching => Len(items) = st_tick - 1
    /\ ~Fetching => Len(items) = st_tick
    /\ \A i \in 1..Len(items) : items[i].tick = i
    /\ st_tick + timer_due = timer_fired

\* C13 witness: two more intervals elapsed while the first tick is still
\* fetching; no second tick has started
C13_Witness ==
    /\ st_pc = "active_workers"
    /\ st_tick = 1
    /\ timer_due = 2
    /\ items = <<>>

\* C13 second case: three ticks ran and handed out three items
C13_WitnessAllTicks ==
    /\ Len(items) = 3
    /\ st_pc = "interval"
    /\ st_tick = 3

(***************************************************************************)
(* Batches and the order of requests of current_allocations, checked under *)
(* SpecAlloc.                                                              *)
(***************************************************************************)
\* the batches the call sent: the active-worker batch and the CU batch
Batches == CallsOf("call") \cup CallsOf("call_array")

\* C21: a batch one of whose sub-calls reverted fails as a whole: it is the
\* call's last request, the call has returned an error, and neither a list
\* of workers nor a list of allocations was taken from the sub-calls that
\* did answer.
C21_FailFast ==
    \A c \in Batches :
        al_calls[c].reverts # {} =>
            /\ ~al_calls[c].ok
            /\ al_calls[c].returned = <<>>
            /\ c = Len(al_calls)
            /\ al_pc = "done"
            /\ al_result = Err("Contract")
            /\ al_calls[c].fn = "call" => al_workers = <<>>

\* C21 witness: of the two sub-calls of a CU batch the second alone
\* reverted, and the call returned an error
C21_Witness ==
    /\ al_pc = "done"
    /\ \E c \in CallsOf("call_array") :
          /\ Len(al_calls[c].args) = 2
          /\ al_calls[c].reverts = {2}
    /\ ~al_result.ok

\* C21 second case: the id sub-call of the active-worker batch reverted
C21_WitnessWorkers ==
    /\ al_pc = "done"
    /\ \E c \in CallsOf("call") : al_calls[c].reverts = {2}
    /\ ~al_result.ok

(***************************************************************************)
(* Errors of the paginated reads, checked under Spec.                      *)
(***************************************************************************)
\* the block-height fetch failed: the call is over and sent no page request
HeightFetchFailed == pc = "done" /\ requests = <<>>

\* C22: a failed request of a paginated read ends the call at once: the
\* failed request is the last one sent, the call has returned the error and
\* with it none of the entries gathered before, and no request is sent
\* twice (one block-height fetch, each page index at most once).
C22_ErrorPropagated ==
    /\ \A i \in 1..Len(requests) :
          ~requests[i].ok =>
              /\ i = Len(requests)
              /\ pc = "done"
              /\ ~result.ok
              /\ result.err \in RequestErrors
    /\ HeightFetchFailed => result = Err("Provider")
    /\ height_fetches <= 1
    /\ \A i, j \in 1..Len(requests) :
          requests[i].page = requests[j].page => i = j

\* C22 witness: two full pages were answered and gathered entries, the
\* request for the third failed and the call returned the error
C22_Witness ==
    /\ pc = "done"
    /\ Len(requests) = 3
    /\ requests[1].ok /\ requests[2].ok /\ ~requests[3].ok
    /\ active_gateways # <<>>
    /\ ~result.ok

\* C22 second case: the block-height fetch failed
C22_WitnessHeight ==
    /\ HeightFetchFailed
    /\ height_fetches = 1
    /\ ~result.ok

(***************************************************************************)
(* Order of the fetches within a tick, checked under SpecStream.           *)
(***************************************************************************)
\* the fetches of the last started tick that failed
FailedFetches == { k \in 1..Len(st_issued) : ~st_issued[k].ok }

\* C23: within a tick the gateway fetch is made first and the worker fetch
\* only after the gateway fetch has succeeded; a failed fetch is the tick's
\* last fetch, and the item of the tick is that fetch's error, never a set:
\* after a failed gateway fetch no worker fetch is made, after a failed
\* worker fetch the gateways already fetched are not handed out.
C23_FirstErrorIsItem ==
    /\ Len(st_issued) <= 2
    /\ Len(st_issued) >= 1 => st_issued[1].fn = "active_gateways"
    /\ Len(st_issued) = 2 =>
          /\ st_issued[1].ok
          /\ st_issued[2].fn = "active_workers"
    /\ st_pc = "active_gateways" => st_issued = <<>>
    /\ st_pc = "active_workers" => Len(st_issued) = 1
    /\ \A k \in FailedFetches :
          /\ k = Len(st_issued)
          /\ ~Fetching
          /\ items # <<>>
          /\ items[Len(items)].tick = st_tick
          /\ ~items[Len(items)].ok
          /\ items[Len(items)].at = st_issued[k].fn
          /\ last_item = Err(st_issued[k].err)
    /\ FailedFetches = {} /\ ~Fetching /\ st_tick > 0 =>
          /\ Len(st_issued) = 2
          /\ items[Len(items)].ok

\* C23 witness: the gateway fetch of a tick succeeded, its worker fetch
\* failed, and the item is the worker fetch's error
C23_Witness ==
    /\ Len(st_issued) = 2
    /\ st_issued[1].ok
    /\ ~st_issued[2].ok
    /\ last_item = Err("Contract")
    /\ items[Len(items)].at = "active_workers"

\* C23 second case: the gateway fetch failed and was the tick's only fetch
C23_WitnessGateways ==
    /\ Len(st_issued) = 1
    /\ ~st_issued[1].ok
    /\ st_pc = "interval"
    /\ last_item = Err("Provider")

\* the active-worker batches the call sent
WorkerFetches == CallsOf("call")

\* C24: called without a worker list, current_allocations sends the
\* active-worker batch once, as its first request and so before the
\* strategy is resolved; when the fetched list is empty the call returns
\* the empty list having sent nothing else; called with a worker list it
\* never sends the active-worker batch.
C24_FetchOnceFirst ==
    /\ ~al_arg.some =>
          /\ al_pc = "start" => al_calls = <<>>
          /\ al_pc # "start" =>
                /\ WorkerFetches = {1}
                /\ al_calls[1].ok /\ al_workers = <<>> =>
                      /\ al_pc = "done"
                      /\ al_result = Ok(<<>>)
                      /\ Len(al_calls) = 1
          /\ \A g \in CallsOf("getUsedStrategy") : g = 2
    /\ al_arg.some => WorkerFetches = {}

\* C24 witness: called without a list, the call fetched an empty list of
\* active workers and returned the empty list after that one request
C24_Witness ==
    /\ ~al_arg.some
    /\ al_pc = "done"
    /\ Len(al_calls) = 1
    /\ al_calls[1].ok
    /\ al_calls[1].returned[1] # <<>>
    /\ al_workers = <<>>
    /\ al_result = Ok(<<>>)

\* C24 second case: called without a list, the fetch came first and the
\* strategy was resolved after it
C24_WitnessResolved ==
    /\ ~al_arg.some
    /\ Len(al_calls) >= 2
    /\ al_calls[1].fn = "call"
    /\ al_calls[2].fn = "getUsedStrategy"

(***************************************************************************)
(* Construction and duplication of the client: EthersClient::new reads the *)
(* registry's default strategy, clone_client copies the value, and         *)
(* current_allocations compares the strategy it resolved with the field    *)
(* of the handle it was called on, while the registry's default changes.   *)
(***************************************************************************)
\* a clone that asks the registry again
clone_client_fresh(self) == [self EXCEPT !.default_strategy_addr = registry_default]

\* Box::new(self.clone()), with #[derive(Clone)] on EthersClient
clone_client(self) == self

\* strategy_addr == self.default_strategy_addr, on the handle self
is_default_strategy_of(self, addr) == addr = self.default_strategy_addr

\* the registry's owner sets another default strategy
SetDefaultStrategy ==
    /\ \E a \in Strategies \ {registry_default} : registry_default' = a
    /\ UNCHANGED <<handles, default_reads, decisions>>
    /\ UNCHANGED <<pagedVars, allocVars, epochVars, regVars, streamVars>>

\* EthersClient::new: gateway_registry.default_strategy().call().await?
EthersClient_new ==
    /\ default_reads = <<>>
    /\ \/ /\ default_reads' = <<[ok |-> TRUE, returned |-> registry_default]>>
          /\ handles' = <<[default_strategy_addr |-> registry_default,
                           cloned_from |-> 0]>>
       \/ /\ default_reads' = <<[ok |-> FALSE, returned |-> None]>>
          /\ UNCHANGED handles
    /\ UNCHANGED <<registry_default, decisions>>
    /\ UNCHANGED <<pagedVars, allocVars, epochVars, regVars, streamVars>>

\* clone_client on handle h
clone_client_call ==
    /\ Len(handles) < MaxHandles
    /\ \E h \in 1..Len(handles) :
          handles' = Append(handles,
                            [clone_client(handles[h]) EXCEPT !.cloned_from = h])
    /\ UNCHANGED <<registry_default, default_reads, decisions>>
    /\ UNCHANGED <<pagedVars, allocVars, epochVars, regVars, streamVars>>

\* current_allocations on handle h, from get_used_strategy to the choice of
\* the path
strategy_decision ==
    /\ Len(decisions) < MaxDecisions
    /\ \E h \in 1..Len(handles), used \in Strategies :
          decisions' = Append(decisions,
              [handle |-> h, strategy_addr |-> used,
               fast_path |-> is_default_strategy_of(handles[h], used),
               registry_default |-> registry_default])
    /\ UNCHANGED <<registry_default, handles, default_reads>>
    /\ UNCHANGED <<pagedVars, allocVars, epochVars, regVars, streamVars>>

ClientInit ==
    /\ registry_default \in Strategies
    /\ handles = <<>>
    /\ default_reads = <<>>
    /\ decisions = <<>>
    /\ PagedIdle
    /\ AllocIdle
    /\ EpochIdle
    /\ RegIdle
    /\ StreamIdle

ClientNext ==
    \/ SetDefaultStrategy
    \/ EthersClient_new
    \/ clone_client_call
    \/ strategy_decision

SpecClient == ClientInit /\ [][ClientNext]_vars

(***************************************************************************)
(* Properties of construction and duplication, checked under SpecClient.  *)
(***************************************************************************)
\* C25: the registry's default strategy is read once, by the constructor;
\* every handle, constructed or cloned, holds the value that read returned,
\* whatever the registry's default has become since, and every choice of
\* path on any handle compares the resolved strategy with that value.
C25_DefaultReadOnce ==
    /\ Len(default_reads) <= 1
    /\ handles # <<>> => Len(default_reads) = 1 /\ default_reads[1].ok
    /\ \A h \in 1..Len(handles) :
          handles[h].default_strategy_addr = default_reads[1].returned
    /\ \A d \in 1..Len(decisions) :
          decisions[d].fast_path <=>
             decisions[d].strategy_addr = default_reads[1].returned

\* C25 witness: after the registry's default changed, a clone made since
\* took the general path for the new default and the fast path for the old
C25_Witness ==
    /\ Len(decisions) = 2
    /\ handles[decisions[1].handle].cloned_from # 0
    /\ decisions[1].registry_default # default_reads[1].returned
    /\ decisions[1].strategy_addr = decisions[1].registry_default
    /\ ~decisions[1].fast_path
    /\ decisions[2].strategy_addr = default_reads[1].returned
    /\ decisions[2].registry_default # default_reads[1].returned
    /\ decisions[2].fast_path

(***************************************************************************)
(* Undecodable ids and records in the paginated reads, checked under Spec. *)
(***************************************************************************)
\* the ids among runs that decode, decoded, in order
RECURSIVE GatewaysOf(_)
GatewaysOf(runs) ==
    IF runs = <<>> THEN <<>>
    ELSE IF from_bytes(Head(runs).x).ok
         THEN vec_extend(<<[x |-> from_bytes(Head(runs).x).value,
                           n |-> Head(runs).n]>>,
                         GatewaysOf(Tail(runs)))
         ELSE GatewaysOf(Tail(runs))

\* the page answered to request i holds an id that does not decode
HasUndecodable(i) ==
    \E k \in 1..Len(requests[i].returned) :
        ~from_bytes(requests[i].returned[k].x).ok

\* C26: in active_gateways a page of 10000 ids is followed by a request for
\* the next page however few of its ids decode, and a shorter page ends the
\* call whatever it holds; a successful call returns the decodable ids of
\* the visited pages in page order and nothing else; the call fails only
\* when a request fails.
C26_RawLengthDecides ==
    op = "active_gateways" =>
        /\ \A i \in 1..Len(requests) :
              requests[i].ok =>
                 /\ PageLen(i) = GATEWAYS_PAGE_SIZE =>
                       /\ i < Len(requests) \/ pc = "page"
                       /\ i < Len(requests) => requests[i + 1].page = i
                 /\ PageLen(i) < GATEWAYS_PAGE_SIZE =>
                       /\ i = Len(requests)
                       /\ Succeeded
        /\ pc = "page" => active_gateways = GatewaysOf(Visited)
        /\ Succeeded => result.value = GatewaysOf(Visited)
        /\ Returned /\ ~result.ok =>
              requests = <<>> \/ ~requests[Len(requests)].ok

\* C26 witness: a first page of 10000 ids none of which decodes was followed
\* by a second, short page, and the call returned the ids of that page
C26_Witness ==
    /\ op = "active_gateways"
    /\ Succeeded
    /\ Len(requests) = 2
    /\ requests[1].returned = <<[x |-> IdBad, n |-> GATEWAYS_PAGE_SIZE]>>
    /\ PageLen(2) = 4321
    /\ ~HasUndecodable(2)
    /\ vec_len(result.value) = 4321

\* the number of visited records among runs whose gateway id decodes
RECURSIVE DecodableCount(_)
DecodableCount(runs) ==
    IF runs = <<>> THEN 0
    ELSE (IF Decodable(Head(runs).x) THEN Head(runs).n ELSE 0)
         + DecodableCount(Tail(runs))

\* the number of members of the first k returned clusters
RECURSIVE MemberCount(_)
MemberCount(k) ==
    IF k = 0 THEN 0
    ELSE vec_len(result.value[k].gateway_ids) + MemberCount(k - 1)

\* the visited records of an operator
RecordsOf(operator) == { r \in VisitedRecords : r.operator = operator }

\* C27: every cluster gateway_clusters returns has at least one member, and
\* each member is the decoded gateway id of a visited record of the
\* cluster's operator; an operator none of whose visited records decodes has
\* no cluster; the members of all clusters together are as many as the
\* visited records whose gateway id decodes.
C27_NoEmptyCluster ==
    Clustered =>
        /\ \A i \in 1..Len(result.value) :
              /\ vec_len(result.value[i].gateway_ids) >= 1
              /\ \A p \in Elements(result.value[i].gateway_ids) :
                    /\ \E r \in RecordsOf(result.value[i].operator_addr) :
                          Decodable(r) /\ PeerOf(r) = p
                    /\ \A r \in VisitedRecords :
                          Decodable(r) /\ PeerOf(r) = p =>
                              r.operator = result.value[i].operator_addr
        /\ \A r \in VisitedRecords :
              (\A q \in RecordsOf(r.operator) : ~Decodable(q)) =>
                  r.operator \notin ClusterOperators
        /\ MemberCount(Len(result.value)) = DecodableCount(Visited)

\* C27 witness: the only visited record of one operator does not decode,
\* another operator's record does; one cluster was returned, for the latter
C27_Witness ==
    /\ Clustered
    /\ { r.gateway_id : r \in RecordsOf(Op1) } = {IdBad}
    /\ RecordsOf(Op2) # {}
    /\ Len(result.value) = 1
    /\ result.value[1].operator_addr = Op2

====
